---- MODULE Spec2Model ----
(***************************************************************************)
(* Model of src/Visualization/Visualizer/VisualizerRender.cpp (Open3D):    *)
(* Visualizer::Render, ResetViewPoint, CaptureScreenImage and              *)
(* CaptureDepthImage, with the GL front buffer, the view control, the      *)
(* image buffers and the files a capture writes.                           *)
(*                                                                         *)
(* Numbers.  A raw depth sample (a float in [0,1]) is n / DepthDen with n  *)
(* in 0..DepthDen, so "p_depth[j] == 1.0" is n = DepthDen.  The doubles    *)
(* z_near, z_far and z_depth are exact rationals <<num, den>>; the model   *)
(* does not reproduce binary floating-point rounding error.                *)
(* Image::data_ is modelled in elements of bytes_per_channel_ bytes, so a  *)
(* byte offset of the code is divided by bytes_per_channel_.               *)
(***************************************************************************)
EXTENDS Integers, Sequences, FiniteSets, TLC

\* ------------------------------------------------------------------ bounds
\* Largest window width and height explored.
MaxDim == 2
\* Largest clock value (GetCurrentTimeStamp has one-second resolution).
MaxTime == 1
\* Depth samples are n / DepthDen, n in 0..DepthDen.
DepthDen == 4
\* Camera poses 0..MaxPose the view control can be in.
MaxPose == 1

\* --------------------------------------------------------- program constants
\* INT16_MAX, line 196.
Int16Max == 32767
\* Number of values of uint16_t (the casts of lines 195-196).
Uint16Mod == 65536

Poses == 0..MaxPose
DefaultPose == 0
Dims == 1..MaxDim
\* depth_scale arguments explored (1000.0 is the default of line 130).
DepthScales == {1000, 40000}
\* Explicit filename arguments; << >> is the empty string.
ExplicitNames == {<<"out.png">>}
EmptyString == << >>

VARIABLES
    build,                \* [apple, cast]: the #if of line 149, the target's double->uint16_t conversion
    view_control_ptr_,    \* the ViewControl object: [id, pose, width, height]
    is_redraw_required_,  \* Visualizer::is_redraw_required_
    gpu,                  \* [pending, queued, front]: GL command queue and front buffer
    now,                  \* wall clock read by GetCurrentTimeStamp
    pc,                   \* position inside the running capture call; "done": it has just returned
    call,                 \* arguments and locals of the capture call
    screen_image,         \* Image screen_image of CaptureScreenImage (the staging buffer)
    depth_image,          \* Image depth_image of CaptureDepthImage (the raw depth buffer)
    png_image,            \* Image png_image (the output buffer)
    files,                \* writer calls of this capture: <<[name, kind, ok, payload]>>
    events,               \* GL / IO operations of this capture, in program order
    transfers,            \* glReadPixels rectangles of this capture: <<[x, y, w, h]>>
    trajectory,           \* PinholeCameraTrajectory of this capture
    heap_overflow         \* a write past the end of float_buffer has happened

vars == <<build, view_control_ptr_, is_redraw_required_, gpu, now, pc, call,
          screen_image, depth_image, png_image, files, events, transfers, trajectory,
          heap_overflow>>

\* ------------------------------------------------------------- arithmetic
RECURSIVE Gcd(_, _)
Gcd(a, b) == IF b = 0 THEN a ELSE Gcd(b, a % b)

Abs(x) == IF x < 0 THEN -x ELSE x

\* A rational <<n, d>> in lowest terms with d > 0 (a double of the code).
Rat(n, d) ==
    LET g == Gcd(Abs(n), Abs(d))
        s == IF d < 0 THEN -1 ELSE 1
    IN  <<(s * n) \div g, (s * d) \div g>>

RInt(k) == <<k, 1>>
RAdd(x, y) == Rat(x[1] * y[2] + y[1] * x[2], x[2] * y[2])
RSub(x, y) == Rat(x[1] * y[2] - y[1] * x[2], x[2] * y[2])
RMul(x, y) == Rat(x[1] * y[1], x[2] * y[2])
RDiv(x, y) == Rat(x[1] * y[2], x[2] * y[1])

\* std::round: to the nearest integer, halfway cases away from zero.
Round(x) ==
    IF x[1] >= 0 THEN (2 * x[1] + x[2]) \div (2 * x[2])
    ELSE -((2 * (-x[1]) + x[2]) \div (2 * x[2]))

Min(a, b) == IF b < a THEN b ELSE a

\* (uint16_t)v for a rounded double v.  In range the conversion is exact.  Out
\* of range it is undefined; the builds either keep the low 16 bits of a wider
\* integer conversion or saturate.
CastUint16(v, cast) ==
    IF v >= 0 /\ v < Uint16Mod THEN v
    ELSE IF cast = "wrap" THEN v % Uint16Mod
    ELSE IF v < 0 THEN 0 ELSE Uint16Mod - 1

\* ------------------------------------------------------------ collaborators
\* ViewControl::GetZNear / GetZFar for the camera pose.
GetZNear(vc) == IF vc.pose = 0 THEN <<1, 10>> ELSE <<vc.pose, 1>>
GetZFar(vc) == IF vc.pose = 0 THEN <<100, 1>> ELSE <<3 * vc.pose, 1>>
GetWindowWidth(vc) == vc.width
GetWindowHeight(vc) == vc.height

\* GetCurrentTimeStamp: a string made from the clock.
GetCurrentTimeStamp(t) == <<ToString(t)>>

\* Contents of a rendered frame: colour byte and depth level at GL row r
\* (row 0 is the bottom), column c.
FrameColor(frame, r, c, ch) == (64 * frame + 16 * r + 4 * c + ch) % 256
FrameDepth(frame, r, c) == (frame + r + 2 * c) % (DepthDen + 1)

\* Image::PrepareImage on a fresh Image: the fields and a zero-filled data_.
PrepareImage(w, h, ch, bpc) ==
    [width_ |-> w, height_ |-> h, num_of_channels_ |-> ch,
     bytes_per_channel_ |-> bpc, data_ |-> [k \in 1..(w * h * ch) |-> 0]]

\* An Image local that the running function does not declare.
NoImage == PrepareImage(0, 0, 1, 1)

\* Image::BytesPerLine.
BytesPerLine(img) == img.width_ * img.num_of_channels_ * img.bytes_per_channel_

\* Elements of bytes_per_channel_ bytes in a line (a byte offset as an element offset).
ElemsPerLine(img) == BytesPerLine(img) \div img.bytes_per_channel_

ConvertToPinholeCameraParameters(vc) ==
    [intrinsic |-> <<vc.width, vc.height>>, extrinsic |-> vc.pose]

\* glReadPixels(x, y, w, h, GL_RGB, GL_UNSIGNED_BYTE) of the front buffer:
\* rows bottom-up, three bytes per pixel, GL_PACK_ALIGNMENT 1 (line 47).
\* A pixel outside the window is undefined: -1.
GlReadPixelsRGB(front, vc, x, y, w, h) ==
    [k \in 1..(w * h * 3) |->
        LET r  == y + ((k - 1) \div (3 * w))
            c  == x + (((k - 1) % (3 * w)) \div 3)
            ch == (k - 1) % 3
        IN  IF r < vc.height /\ c < vc.width THEN FrameColor(front, r, c, ch) ELSE -1]

\* glReadPixels(x, y, w, h, GL_DEPTH_COMPONENT, GL_FLOAT): one float per pixel.
GlReadPixelsDepth(front, vc, x, y, w, h) ==
    [k \in 1..(w * h) |->
        LET r == y + ((k - 1) \div w)
            c == x + ((k - 1) % w)
        IN  IF r < vc.height /\ c < vc.width THEN FrameDepth(front, r, c) ELSE -1]

\* memcpy(dst + doff, src + soff, n).
Memcpy(dst, doff, src, soff, n) ==
    [k \in DOMAIN dst |->
        IF (k - 1) >= doff /\ (k - 1) < doff + n THEN src[soff + (k - 1 - doff) + 1]
        ELSE dst[k]]

\* The row loop of lines 111-115, from row i on.
RECURSIVE FlipLoop(_, _, _)
FlipLoop(i, src, dst_data) ==
    IF i >= src.height_ THEN dst_data
    ELSE FlipLoop(i + 1, src,
                  Memcpy(dst_data, BytesPerLine(src) * i, src.data_,
                         BytesPerLine(src) * (src.height_ - i - 1), BytesPerLine(src)))

\* Mutant: the rows are copied in the order they were read.
FlipScreenImage_NoFlip(src, vc) ==
    LET png == PrepareImage(GetWindowWidth(vc), GetWindowHeight(vc), 3, 1)
    IN  [png EXCEPT !.data_ = src.data_]

\* Lines 107-115: png_image from screen_image.
FlipScreenImage(src, vc) ==
    LET png == PrepareImage(GetWindowWidth(vc), GetWindowHeight(vc), 3, 1)
    IN  [png EXCEPT !.data_ = FlipLoop(0, src, png.data_)]

\* Height argument of the glReadPixels call of line 162.
ColumnReadHeight(img) == img.width_

\* One glReadPixels of the column loop (lines 162-164) into float_buffer: the
\* samples that fit are stored, the rest fall past the end of the vector.
ReadColumn(front, vc, img, j, float_buffer) ==
    LET col == GlReadPixelsDepth(front, vc, j, 0, 1, ColumnReadHeight(img))
    IN  [i \in DOMAIN float_buffer |->
            IF i <= Len(col) THEN col[i] ELSE float_buffer[i]]

\* Lines 165-167: column j of the destination from float_buffer.
StoreColumn(img, j, float_buffer, data) ==
    [k \in DOMAIN data |->
        IF (k - 1) % img.width_ = j /\ (k - 1) \div img.width_ < img.height_
        THEN float_buffer[((k - 1) \div img.width_) + 1]
        ELSE data[k]]

\* The column loop of lines 161-168 from column j on: the destination data.
RECURSIVE ColumnLoop(_, _, _, _, _, _)
ColumnLoop(j, front, vc, img, float_buffer, data) ==
    IF j >= img.width_ THEN data
    ELSE LET fb == ReadColumn(front, vc, img, j, float_buffer)
         IN  ColumnLoop(j + 1, front, vc, img, fb, StoreColumn(img, j, fb, data))

\* Lines 159-168 (__APPLE__): std::vector<float> float_buffer(height_) is zero-filled.
ColumnWiseRead(front, vc, img) ==
    ColumnLoop(0, front, vc, img, [i \in 1..img.height_ |-> 0], img.data_)

\* The rectangles the column loop asks glReadPixels for.
ColumnWiseTransfers(img) ==
    [j \in 1..img.width_ |-> [x |-> j - 1, y |-> 0, w |-> 1, h |-> ColumnReadHeight(img)]]

\* glReadPixels of line 162 stores more floats than float_buffer holds.
ColumnOverflows(img) == ColumnReadHeight(img) > img.height_

\* Lines 171-172: the bulk read.
BulkRead(front, vc, img) ==
    GlReadPixelsDepth(front, vc, 0, 0, img.width_, img.height_)

BulkTransfers(img) == <<[x |-> 0, y |-> 0, w |-> img.width_, h |-> img.height_]>>

\* Lines 192-194, d = n / DepthDen.
ZDepth(z_near, z_far, n) ==
    RDiv(RMul(RMul(RInt(2), z_near), z_far),
         RSub(RAdd(z_far, z_near),
              RMul(RSub(RMul(RInt(2), Rat(n, DepthDen)), RInt(1)),
                   RSub(z_far, z_near))))

\* Lines 195-196: std::min((uint16_t)std::round(depth_scale * z_depth), (uint16_t)INT16_MAX).
Quantize(depth_scale, z_depth, cast) ==
    Min(CastUint16(Round(RMul(RInt(depth_scale), z_depth)), cast),
        CastUint16(Int16Max, cast))

\* Mutant: the test for 1.0 is missing.
DepthPixel_NoSkip(old, n, z_near, z_far, depth_scale, cast) ==
    Quantize(depth_scale, ZDepth(z_near, z_far, n), cast)

\* Lines 189-196 for one sample: the pixel is skipped (old kept) when p_depth[j] == 1.0.
DepthPixel(old, n, z_near, z_far, depth_scale, cast) ==
    IF n = DepthDen THEN old
    ELSE Quantize(depth_scale, ZDepth(z_near, z_far, n), cast)

\* Lines 177-198: png_image from depth_image.
ConvertDepthImage(src, vc, depth_scale, cast) ==
    LET png == PrepareImage(GetWindowWidth(vc), GetWindowHeight(vc), 1, 2)
        z_near == GetZNear(vc)
        z_far == GetZFar(vc)
    IN  [png EXCEPT !.data_ =
            [k \in DOMAIN png.data_ |->
                LET i == (k - 1) \div ElemsPerLine(png)
                    j == (k - 1) % ElemsPerLine(png)
                IN  IF i < src.height_ /\ j < src.width_
                    THEN DepthPixel(png.data_[k],
                                    src.data_[ElemsPerLine(src) * (src.height_ - i - 1) + j + 1],
                                    z_near, z_far, depth_scale, cast)
                    ELSE png.data_[k]]]

\* ------------------------------------------------------------ state machine
NoTrajectory == [source |-> "none", intrinsic_ |-> << >>, extrinsic_ |-> << >>]

NoCall ==
    [fn |-> "none", filename |-> EmptyString, do_render |-> FALSE, depth_scale |-> 0,
     png_filename |-> EmptyString, camera_filename |-> EmptyString,
     redraw_at_entry |-> FALSE, renders |-> 0, render_vc |-> "none",
     failure_reported |-> FALSE]

Init ==
    /\ build \in [apple : BOOLEAN, cast : {"wrap", "saturate"}]
    /\ view_control_ptr_ \in [id : {"vc"}, pose : Poses, width : Dims, height : Dims]
    /\ is_redraw_required_ \in BOOLEAN
    /\ gpu \in [pending : {FALSE}, queued : {DefaultPose}, front : {DefaultPose}]
    /\ now = 0
    /\ pc = "idle"
    /\ call = NoCall
    /\ screen_image = NoImage
    /\ depth_image = NoImage
    /\ png_image = NoImage
    /\ files = << >>
    /\ events = << >>
    /\ transfers = << >>
    /\ trajectory = NoTrajectory
    /\ heap_overflow = FALSE

\* Mutant: the readback is issued before the drain.
StepOrder_ReadBeforeFinish ==
    <<"render", "read", "finish", "convert", "write_image", "write_camera">>

\* Mutant: the camera parameters are taken before the frame is rendered and read.
StepOrder_CameraFirst ==
    <<"write_camera", "render", "finish", "read", "convert", "write_image">>

\* The statements of a capture call in program order (lines 96-126, 143-209).
StepOrder == <<"render", "finish", "read", "convert", "write_image", "write_camera">>

PcAfter(p) ==
    LET i == CHOOSE k \in 1..Len(StepOrder) : StepOrder[k] = p
    IN  IF i = Len(StepOrder) THEN "done" ELSE StepOrder[i + 1]

Idle == pc \in {"idle", "done"}

\* The clock advances between calls.
Tick ==
    /\ Idle
    /\ now < MaxTime
    /\ now' = now + 1
    /\ UNCHANGED <<build, view_control_ptr_, is_redraw_required_, gpu, pc, call,
                   screen_image, depth_image, png_image, files, events, transfers,
                   trajectory, heap_overflow>>

\* The GPU finishes its queued commands on its own; the swap shows the frame.
GpuComplete ==
    /\ gpu.pending
    /\ pc # "crashed"
    /\ gpu' = [gpu EXCEPT !.pending = FALSE, !.front = gpu.queued]
    /\ UNCHANGED <<build, view_control_ptr_, is_redraw_required_, now, pc, call,
                   screen_image, depth_image, png_image, files, events, transfers,
                   trajectory, heap_overflow>>

\* ViewControl::Reset: back to the default view.
ViewReset(vc) == [vc EXCEPT !.pose = DefaultPose]

\* Lines 77-81.
ResetViewPoint ==
    /\ Idle
    /\ view_control_ptr_' = ViewReset(view_control_ptr_)
    /\ is_redraw_required_' = TRUE
    /\ pc' = "idle"
    /\ UNCHANGED <<build, gpu, now, call, screen_image, depth_image, png_image,
                   files, events, transfers, trajectory, heap_overflow>>

\* Lines 59-75 on the GL state: the frame of the current view is queued and
\* the buffers are swapped.
Render(g, vc) == [g EXCEPT !.pending = TRUE, !.queued = vc.pose]

\* glFinish: returns when every queued command has completed.
GlFinish(g) == [g EXCEPT !.pending = FALSE, !.front = IF g.pending THEN g.queued ELSE g.front]

\* Lines 86-92 / 132-138: the two file names.
PngFilename(prefix, filename, t) ==
    IF filename = EmptyString THEN <<prefix>> \o GetCurrentTimeStamp(t) \o <<".png">>
    ELSE filename

\* Mutant: the camera file is named whatever the filename argument is.
CameraFilename_Always(prefix, filename, t) ==
    <<prefix>> \o GetCurrentTimeStamp(t) \o <<".json">>

CameraFilename(prefix, filename, t) ==
    IF filename = EmptyString THEN <<prefix>> \o GetCurrentTimeStamp(t) \o <<".json">>
    ELSE EmptyString

Enter(fn, filename, do_render, depth_scale, png_prefix, camera_prefix) ==
    /\ Idle
    /\ call' = [fn |-> fn, filename |-> filename, do_render |-> do_render,
                depth_scale |-> depth_scale,
                png_filename |-> PngFilename(png_prefix, filename, now),
                camera_filename |-> CameraFilename(camera_prefix, filename, now),
                redraw_at_entry |-> is_redraw_required_, renders |-> 0,
                render_vc |-> "none", failure_reported |-> FALSE]
    /\ png_image' = NoImage
    /\ files' = << >>
    /\ events' = << >>
    /\ transfers' = << >>
    /\ trajectory' = NoTrajectory
    /\ heap_overflow' = FALSE
    /\ pc' = StepOrder[1]
    /\ UNCHANGED <<build, view_control_ptr_, is_redraw_required_, gpu, now>>

\* Lines 83-95: entry of CaptureScreenImage.
CaptureScreenImage ==
    \E filename \in ExplicitNames \cup {EmptyString}, do_render \in BOOLEAN :
        /\ Enter("screen", filename, do_render, 0, "ScreenCapture_", "ScreenCamera_")
        /\ screen_image' = PrepareImage(GetWindowWidth(view_control_ptr_),
                                        GetWindowHeight(view_control_ptr_), 3, 1)
        /\ depth_image' = NoImage

\* Lines 129-141: entry of CaptureDepthImage.
CaptureDepthImage ==
    \E filename \in ExplicitNames \cup {EmptyString}, do_render \in BOOLEAN,
       depth_scale \in DepthScales :
        /\ Enter("depth", filename, do_render, depth_scale, "DepthCapture_", "DepthCamera_")
        /\ depth_image' = PrepareImage(GetWindowWidth(view_control_ptr_),
                                       GetWindowHeight(view_control_ptr_), 1, 4)
        /\ screen_image' = NoImage

\* Mutant: the redraw flag is left alone after the render.
StepRender_KeepFlag ==
    /\ pc = "render"
    /\ pc' = PcAfter(pc)
    /\ IF call.do_render
       THEN /\ gpu' = Render(gpu, view_control_ptr_)
            /\ call' = [call EXCEPT !.renders = @ + 1, !.render_vc = view_control_ptr_.id]
            /\ events' = Append(events, "Render")
       ELSE UNCHANGED <<gpu, call, events>>
    /\ UNCHANGED <<build, view_control_ptr_, is_redraw_required_, now, screen_image,
                   depth_image, png_image, files, transfers, trajectory, heap_overflow>>

\* Lines 96-99 / 143-146.
StepRender ==
    /\ pc = "render"
    /\ pc' = PcAfter(pc)
    /\ IF call.do_render
       THEN /\ gpu' = Render(gpu, view_control_ptr_)
            /\ is_redraw_required_' = FALSE
            /\ call' = [call EXCEPT !.renders = @ + 1, !.render_vc = view_control_ptr_.id]
            /\ events' = Append(events, "Render")
       ELSE UNCHANGED <<gpu, is_redraw_required_, call, events>>
    /\ UNCHANGED <<build, view_control_ptr_, now, screen_image, depth_image, png_image,
                   files, transfers, trajectory, heap_overflow>>

\* Line 100 / 147.
StepFinish ==
    /\ pc = "finish"
    /\ pc' = PcAfter(pc)
    /\ gpu' = GlFinish(gpu)
    /\ events' = Append(events, "glFinish")
    /\ UNCHANGED <<build, view_control_ptr_, is_redraw_required_, now, call,
                   screen_image, depth_image, png_image, files, transfers, trajectory,
                   heap_overflow>>

\* What glReadPixels appends to the event list: the read, and whether rendering
\* commands were still queued when it ran.
ReadEvent(g) == IF g.pending THEN "glReadPixels(in flight)" ELSE "glReadPixels"

\* Lines 101-103 (colour) and 149-173 (depth).
StepRead ==
    /\ pc = "read"
    /\ \/ /\ call.fn = "screen"
          /\ screen_image' =
                [screen_image EXCEPT !.data_ =
                    GlReadPixelsRGB(gpu.front, view_control_ptr_, 0, 0,
                                    GetWindowWidth(view_control_ptr_),
                                    GetWindowHeight(view_control_ptr_))]
          /\ transfers' = BulkTransfers(screen_image)
          /\ events' = Append(events, ReadEvent(gpu))
          /\ pc' = PcAfter(pc)
          /\ UNCHANGED <<depth_image, heap_overflow>>
       \/ /\ call.fn = "depth"
          /\ ~build.apple
          /\ depth_image' =
                [depth_image EXCEPT !.data_ = BulkRead(gpu.front, view_control_ptr_, depth_image)]
          /\ transfers' = BulkTransfers(depth_image)
          /\ events' = Append(events, ReadEvent(gpu))
          /\ pc' = PcAfter(pc)
          /\ UNCHANGED <<screen_image, heap_overflow>>
       \/ /\ call.fn = "depth"
          /\ build.apple
          /\ depth_image' =
                [depth_image EXCEPT !.data_ = ColumnWiseRead(gpu.front, view_control_ptr_, depth_image)]
          /\ transfers' = ColumnWiseTransfers(depth_image)
          /\ events' = events \o [j \in 1..depth_image.width_ |-> ReadEvent(gpu)]
          /\ heap_overflow' = ColumnOverflows(depth_image)
          \* Writing past float_buffer is undefined: the call goes on with a
          \* corrupted heap, or the process dies.
          /\ \/ pc' = PcAfter(pc)
             \/ /\ ColumnOverflows(depth_image)
                /\ pc' = "crashed"
          /\ UNCHANGED screen_image
    /\ UNCHANGED <<build, view_control_ptr_, is_redraw_required_, gpu, now, call,
                   png_image, files, trajectory>>

\* Lines 105-115 (colour) and 175-198 (depth).
StepConvert ==
    /\ pc = "convert"
    /\ pc' = PcAfter(pc)
    /\ png_image' =
          IF call.fn = "screen" THEN FlipScreenImage(screen_image, view_control_ptr_)
          ELSE ConvertDepthImage(depth_image, view_control_ptr_, call.depth_scale, build.cast)
    /\ UNCHANGED <<build, view_control_ptr_, is_redraw_required_, gpu, now, call,
                   screen_image, depth_image, files, events, transfers, trajectory,
                   heap_overflow>>

\* Lines 117-118 / 200-201: WriteImage, whose result the call does not use.
StepWriteImage ==
    /\ pc = "write_image"
    /\ pc' = PcAfter(pc)
    /\ \E ok \in BOOLEAN :
          files' = Append(files, [name |-> call.png_filename, kind |-> "image",
                                  ok |-> ok, payload |-> png_image.data_])
    /\ events' = Append(events, "WriteImage")
    /\ UNCHANGED <<build, view_control_ptr_, is_redraw_required_, gpu, now, call,
                   screen_image, depth_image, png_image, transfers, trajectory,
                   heap_overflow>>

\* Lines 121-124 / 204-207: the trajectory of one pose, from the view control.
MakeTrajectory(vc) ==
    LET p == ConvertToPinholeCameraParameters(vc)
    IN  [source |-> vc.id, intrinsic_ |-> p.intrinsic, extrinsic_ |-> <<p.extrinsic>>]

\* Lines 119-126 / 202-209.
StepWriteCamera ==
    /\ pc = "write_camera"
    /\ pc' = PcAfter(pc)
    /\ IF call.camera_filename # EmptyString
       THEN /\ trajectory' = MakeTrajectory(view_control_ptr_)
            /\ \E ok \in BOOLEAN :
                  files' = Append(files, [name |-> call.camera_filename, kind |-> "camera",
                                          ok |-> ok,
                                          payload |-> MakeTrajectory(view_control_ptr_).extrinsic_])
            /\ events' = events \o <<"ConvertToPinholeCameraParameters", "WriteIJsonConvertible">>
       ELSE UNCHANGED <<trajectory, files, events>>
    /\ UNCHANGED <<build, view_control_ptr_, is_redraw_required_, gpu, now, call,
                   screen_image, depth_image, png_image, transfers, heap_overflow>>

Next ==
    \/ Tick
    \/ GpuComplete
    \/ ResetViewPoint
    \/ CaptureScreenImage
    \/ CaptureDepthImage
    \/ StepRender
    \/ StepFinish
    \/ StepRead
    \/ StepConvert
    \/ StepWriteImage
    \/ StepWriteCamera

Spec == Init /\ [][Next]_vars

\* ------------------------------------------------------------------ claims
EventIdx(e) == {k \in DOMAIN events : events[k] = e}
ReadIdx == EventIdx("glReadPixels") \cup EventIdx("glReadPixels(in flight)")
Converted == pc \in {"write_image", "write_camera", "done"}

\* The metric reconstruction of the specification for raw depth n / DepthDen,
\* near a/b, far c/e: round(s * 2ac*DepthDen / ((cb+ae)*DepthDen - (2n-DepthDen)(cb-ae))),
\* clamped to 32767.
SpecDepth(s, zn, zf, n) ==
    LET num == s * 2 * zn[1] * zf[1] * DepthDen
        den == (zf[1] * zn[2] + zn[1] * zf[2]) * DepthDen
               - (2 * n - DepthDen) * (zf[1] * zn[2] - zn[1] * zf[2])
        r   == (2 * num + den) \div (2 * den)
    IN  IF r > Int16Max THEN Int16Max ELSE r

\* Raw sample of depth_image at buffer row r, column c; output sample at row i, column j.
RawAt(r, c) == depth_image.data_[r * depth_image.width_ + c + 1]
PngAt(i, j) == png_image.data_[i * png_image.width_ + j + 1]

\* C1: every depth pixel whose raw sample is not 1.0 is stored as
\* min(round(depth_scale * z_depth), 32767); a value above 32767, above 65535
\* included, is stored as exactly 32767 and never as a value wrapped modulo 2^16.
C1_ClampNeverWraps ==
    (Converted /\ call.fn = "depth") =>
        \A r \in 0..(depth_image.height_ - 1), c \in 0..(depth_image.width_ - 1) :
            RawAt(r, c) # DepthDen =>
                LET v == Round(RMul(RInt(call.depth_scale),
                                    ZDepth(GetZNear(view_control_ptr_),
                                           GetZFar(view_control_ptr_), RawAt(r, c))))
                IN  PngAt(depth_image.height_ - 1 - r, c) = Min(v, Int16Max)

\* C2: a capture with an auto-generated filename that has returned either wrote
\* both files or reported the failure; after a failed image write no metadata
\* file is written.
C2_NoPartialOutput ==
    (pc = "done" /\ call.filename = EmptyString) =>
        /\ \/ (Len(files) = 2 /\ \A k \in DOMAIN files : files[k].ok)
           \/ call.failure_reported
        /\ (\E k \in DOMAIN files : files[k].kind = "image" /\ ~files[k].ok)
              => ~\E k \in DOMAIN files : files[k].kind = "camera"

\* C3: in every capture call Render (only when do_render) comes before glFinish,
\* glFinish before every glReadPixels, every glReadPixels before WriteImage, and
\* no glReadPixels runs while rendering commands are still queued.
C3_RenderDrainReadWrite ==
    /\ EventIdx("glReadPixels(in flight)") = {}
    /\ \A r \in ReadIdx : \E f \in EventIdx("glFinish") : f < r
    /\ \A f \in EventIdx("glFinish") :
          call.do_render => \E k \in EventIdx("Render") : k < f
    /\ ~call.do_render => EventIdx("Render") = {}
    /\ \A w \in EventIdx("WriteImage") :
          /\ ReadIdx # {}
          /\ \A r \in ReadIdx : r < w

C3_Witness ==
    /\ pc = "done"
    /\ call.fn = "depth"
    /\ build.apple
    /\ call.do_render
    /\ Cardinality(ReadIdx) = 2
    /\ EventIdx("WriteImage") # {}

\* C4: the camera-metadata writer is called if and only if the filename argument
\* is empty: with an explicit filename the call issues exactly one write, the
\* image under that name; with an empty filename it issues the image write and
\* one metadata write, under names with the same timestamp.
C4_MetadataIffAutoName ==
    /\ (\E k \in DOMAIN files : files[k].kind = "camera") => call.filename = EmptyString
    /\ pc = "done" =>
          IF call.filename # EmptyString
          THEN /\ Len(files) = 1
               /\ files[1].kind = "image"
               /\ files[1].name = call.filename
          ELSE /\ Len(files) = 2
               /\ files[1].kind = "image"
               /\ files[2].kind = "camera"
               /\ files[1].name[1] = (IF call.fn = "screen" THEN "ScreenCapture_" ELSE "DepthCapture_")
               /\ files[2].name[1] = (IF call.fn = "screen" THEN "ScreenCamera_" ELSE "DepthCamera_")
               /\ files[1].name[2] = files[2].name[2]
               /\ files[1].name[3] = ".png"
               /\ files[2].name[3] = ".json"

C4_Witness ==
    /\ pc = "done"
    /\ call.filename = EmptyString
    /\ Len(files) = 2
    /\ files[2].kind = "camera"
    /\ now > 0

\* C5: the output sample at row i, column j is the quantized metric
\* reconstruction of the raw depth sample at row (h-1-i), column j, clamped to
\* 32767 (stated for the samples that are not 1.0; C6 is about those that are).
C5_FlippedReconstruction ==
    (Converted /\ call.fn = "depth") =>
        /\ png_image.width_ = depth_image.width_
        /\ png_image.height_ = depth_image.height_
        /\ \A i \in 0..(png_image.height_ - 1), j \in 0..(png_image.width_ - 1) :
              RawAt(png_image.height_ - 1 - i, j) # DepthDen =>
                  PngAt(i, j) = SpecDepth(call.depth_scale, GetZNear(view_control_ptr_),
                                          GetZFar(view_control_ptr_),
                                          RawAt(png_image.height_ - 1 - i, j))

\* C6: every depth pixel whose raw sample is exactly 1.0 has the value 0 in the
\* output buffer and in the image handed to the writer, whatever z_near, z_far
\* and depth_scale are, and no failure is reported.
C6_NoHitIsZero ==
    (Converted /\ call.fn = "depth") =>
        /\ \A r \in 0..(depth_image.height_ - 1), c \in 0..(depth_image.width_ - 1) :
              RawAt(r, c) = DepthDen => PngAt(depth_image.height_ - 1 - r, c) = 0
        /\ \A k \in DOMAIN files : files[k].kind = "image" => files[k].payload = png_image.data_
        /\ ~call.failure_reported

C6_Witness ==
    /\ pc = "done"
    /\ call.fn = "depth"
    /\ \E r \in 0..(depth_image.height_ - 1), c \in 0..(depth_image.width_ - 1) :
          /\ RawAt(r, c) = DepthDen
          /\ PngAt(depth_image.height_ - 1 - r, c) = 0
    /\ \E k \in DOMAIN png_image.data_ : png_image.data_[k] > 0

\* C7: the colour output buffer has the dimensions of the staging buffer, output
\* row i is byte for byte staging row (h-1-i), and the row reorder applied to the
\* output gives back the staging buffer.
C7_ScreenFlip ==
    (Converted /\ call.fn = "screen") =>
        /\ png_image.width_ = screen_image.width_
        /\ png_image.height_ = screen_image.height_
        /\ png_image.num_of_channels_ = screen_image.num_of_channels_
        /\ png_image.bytes_per_channel_ = screen_image.bytes_per_channel_
        /\ Len(png_image.data_) = Len(screen_image.data_)
        /\ Len(png_image.data_) = GetWindowWidth(view_control_ptr_) * GetWindowHeight(view_control_ptr_) * 3
        /\ \A i \in 0..(screen_image.height_ - 1), b \in 0..(BytesPerLine(screen_image) - 1) :
              png_image.data_[BytesPerLine(screen_image) * i + b + 1]
                 = screen_image.data_[BytesPerLine(screen_image) * (screen_image.height_ - 1 - i) + b + 1]
        /\ FlipLoop(0, png_image, [k \in DOMAIN png_image.data_ |-> 0]) = screen_image.data_

C7_Witness ==
    /\ pc = "done"
    /\ call.fn = "screen"
    /\ screen_image.height_ = 2
    /\ screen_image.width_ = 1
    /\ png_image.data_ # screen_image.data_

\* C8: a capture that emits camera metadata takes the parameters from the view
\* control after its own Render (when do_render) and after every glReadPixels,
\* from the view-control object Render used, into a trajectory of exactly one
\* extrinsic pose.
C8_MetadataAfterRenderAndRead ==
    /\ trajectory # NoTrajectory =>
          /\ Len(trajectory.extrinsic_) = 1
          /\ trajectory.source = view_control_ptr_.id
          /\ call.do_render => trajectory.source = call.render_vc
    /\ \A m \in EventIdx("ConvertToPinholeCameraParameters") :
          /\ call.do_render => \E k \in EventIdx("Render") : k < m
          /\ ReadIdx # {}
          /\ \A r \in ReadIdx : r < m

C8_Witness ==
    /\ pc = "done"
    /\ call.do_render
    /\ trajectory # NoTrajectory
    /\ call.redraw_at_entry
    /\ EventIdx("ConvertToPinholeCameraParameters") # {}

\* C9: the column-wise strategy asks, for each column j, for the rectangle of
\* width 1 and the full window height at (j, 0), never writes past its column
\* buffer, and leaves in the destination what the bulk read would have left.
C9_ColumnWiseEqualsBulk ==
    (build.apple /\ call.fn = "depth" /\ pc \in {"convert", "crashed"}) =>
        /\ transfers = [j \in 1..GetWindowWidth(view_control_ptr_) |->
                           [x |-> j - 1, y |-> 0, w |-> 1,
                            h |-> GetWindowHeight(view_control_ptr_)]]
        /\ ~heap_overflow
        /\ pc # "crashed"
        /\ depth_image.data_ = BulkRead(gpu.front, view_control_ptr_, depth_image)

\* C10: a capture with do_render invokes Render exactly once and returns with
\* is_redraw_required_ false, even when ResetViewPoint had set it; a capture
\* without do_render does not invoke Render and returns with the flag as it was
\* on entry.
C10_RedrawFlag ==
    pc = "done" =>
        IF call.do_render
        THEN call.renders = 1 /\ Cardinality(EventIdx("Render")) = 1 /\ ~is_redraw_required_
        ELSE /\ call.renders = 0
             /\ EventIdx("Render") = {}
             /\ is_redraw_required_ = call.redraw_at_entry

C10_Witness ==
    /\ pc = "done"
    /\ call.do_render
    /\ call.redraw_at_entry
    /\ call.renders = 1
    /\ ~is_redraw_required_

====
